---- MODULE Spec2Model ----
(***************************************************************************)
(* Live-mode pipeline of Voice Enricher Desktop (renderer component Home): *)
(* the VAD loop (checkVoiceActivity), the seal-and-queue sequence          *)
(* (processLiveSegment), the background worker (processTranscriptionQueue) *)
(* and the start/stop orchestration (startLiveMode, stopLiveMode,          *)
(* toggleLiveMode).  Every action is one run of the code between two       *)
(* points at which the JavaScript event loop can schedule something else   *)
(* (an await on a timer, an IPC call, a recorder event, a frame callback). *)
(* Times are in milliseconds.  A second part models the persistence of a   *)
(* project: saveCurrentProject and renameProject in the renderer, and the  *)
(* projects:save and projects:rename handlers of the main process.         *)
(***************************************************************************)
EXTENDS Integers, Sequences, FiniteSets, TLC

\* ---- program constants -------------------------------------------------
silenceThreshold == 15
silenceDuration == 3000
minChunksForSegment == 15
MinBlobSize == 1000
MaxWaitCount == 50

\* ---- bounds of the model -----------------------------------------------
MaxSeals == 3
MaxStarts == 2
MaxNow == 3200
ChunkBatch == 8
MaxChunks == 15

Null == -1

\* granularity of the clock: two steps exceed the idle time
TimeStep == silenceDuration \div 2 + 100

\* loudness readings (mean of the frequency bins) and blob sizes fed to the model
Loudness == {0, 40}
BlobSizes == {500, 2000}
Outcomes == {"ok", "fail", "empty"}

VARIABLES
    liveMode,                   \* React state liveMode
    listening,                  \* React state listening
    isProcessingAfterLiveStop,  \* state + ref, set together
    silenceCountdown,           \* React state silenceCountdown (Null = none)
    errorLog,                   \* the setError(message) calls, in order
    liveModeActive,             \* liveModeActiveRef
    vadLoop,                    \* liveAnimationRef: a checkVoiceActivity frame is requested
    silenceStart,               \* silenceStartRef (Null = unset)
    now,                        \* Date.now()
    recordingStart,             \* recordingStartTimeRef
    recorder,                   \* mediaRecorderRef: "none", or the state of the recorder it holds
    stream,                     \* recordingStreamRef is set
    chunks,                     \* audioChunksRef.current.length
    isProcessingSegment,        \* isProcessingSegmentRef (seal lock)
    sealing,                    \* processLiveSegment calls awaiting the recorder's stop event
    saving,                     \* processLiveSegment calls awaiting saveAudioToProject
    liveAudioBlobs,             \* liveAudioBlobsRef.current.length
    queue,                      \* transcriptionQueueRef
    isTranscribing,             \* isTranscribingRef
    workerPc,                   \* position of processTranscriptionQueue
    workerItem,                 \* the items shifted off the queue and not yet done with
    workerLoops,                \* processTranscriptionQueue calls inside their while loop
    workerTimers,               \* pending setTimeout(processTranscriptionQueue, 50)
    segments,                   \* React state segments
    currentProject,             \* currentProjectRef (Null = none)
    projectCount,               \* projects created so far
    startPc,                    \* position of toggleLiveMode's start branch / startLiveMode
    startCount,                 \* sessions started so far
    stopPc,                     \* position of toggleLiveMode's stop branch / stopLiveMode
    waitCount,                  \* stopLiveMode's waitCount
    blobCount,                  \* blobs requested from the recorder so far (blob identity)
    orphans,                    \* recorders still recording that mediaRecorderRef no longer holds
    hotkeyPc,                   \* position of toggleListen's stop branch / stopWhisperRecording
    audioDisk,                  \* disk: the audio files written by projects:saveAudio
    diskSegments,               \* disk: per project, the segment list last saved
    closure,                    \* <<segments>> as seen by the toggleLiveMode call that stops, or <<>>
    finalLog,                   \* history: the final writes of toggleLiveMode
    uiCount,                    \* hotkey presses, project actions and edits so far
    segmentText,                \* processTranscriptionQueue's segmentText (a string of characters)
    audioDuration,              \* its audioDuration, in seconds
    isUncertain,                \* <<its isUncertain>>, or <<>> before it is computed
    sealedLog,                  \* history: blobs delivered by the recorder, in seal order
    pushLog,                    \* history: items pushed to the queue, in push order
    takenLog,                   \* history: items shifted off the queue by the worker, with their outcome
    lastTick,                   \* history: what the last checkVoiceActivity run did
    saveLock,                   \* saveLockRef
    saveQueue,                  \* saveQueueRef
    mainSave,                   \* the projects:save call in flight (renderer to main and back)
    mainRename,                 \* the projects:rename call in flight
    projectSaveLocks,           \* main process: project ids with a save lock
    folderId,                   \* disk: the id (folder name) of the project's folder
    projectJson,                \* disk: the content of project.json
    tmpJson,                    \* disk: the content of project.json.tmp
    submitLog                   \* history: saves and renames in submission order, with outcome

vars == <<liveMode, listening, isProcessingAfterLiveStop, silenceCountdown, errorLog,
          liveModeActive, vadLoop, silenceStart, now, recordingStart, recorder, stream,
          chunks, isProcessingSegment, sealing, saving, liveAudioBlobs, queue,
          isTranscribing, workerPc, workerItem, workerLoops, workerTimers, segments,
          currentProject,
          projectCount, startPc, startCount, stopPc, waitCount, blobCount, sealedLog,
          pushLog, takenLog, lastTick, orphans, hotkeyPc, audioDisk, diskSegments,
          closure, finalLog, uiCount, segmentText, audioDuration, isUncertain,
          saveLock, saveQueue, mainSave,
          mainRename,
          projectSaveLocks, folderId, projectJson, tmpJson, submitLog>>

uiVars == <<liveMode, listening, isProcessingAfterLiveStop, silenceCountdown, errorLog>>
vadVars == <<vadLoop, silenceStart, lastTick>>
recVars == <<recorder, stream, chunks, isProcessingSegment, sealing, blobCount, orphans>>
workerVars == <<isTranscribing, workerPc, workerItem, workerLoops, segments, takenLog>>
projVars == <<currentProject, projectCount>>
startVars == <<startPc, startCount>>
stopVars == <<stopPc, waitCount>>
saveVars == <<saveLock, saveQueue, mainSave, mainRename, projectSaveLocks, folderId,
              projectJson, tmpJson, submitLog>>

\* what the live actions other than the worker, the audio save and the stop click
\* leave alone
diskVars == <<audioDisk, diskSegments>>
finalVars == <<closure, finalLog>>
textVars == <<segmentText, audioDuration, isUncertain>>
quietVars == <<hotkeyPc, uiCount, saveVars, diskVars, finalVars, textVars>>

\* the ids of the projects a run can create
Projects == 1..MaxStarts

\* the fields of project.json that saves and renames write
Keys == {"name", "segments", "rawTranscript"}
NoMeta == [k \in Keys |-> Null]
NoSave == [pc |-> "none", op |-> 0, projectId |-> Null, key |-> "", val |-> Null,
           existing |-> NoMeta]
NoRename == [pc |-> "none", op |-> 0, projectId |-> Null, name |-> Null, meta |-> NoMeta]

NoTick == [average |-> Null, chunks |-> 0, at |-> 0, quietSince |-> Null,
           timerAfter |-> Null, sealed |-> FALSE]

\* the state of the component after it is mounted, the worker's locals apart
InitHome ==
    /\ liveMode = FALSE
    /\ listening = FALSE
    /\ isProcessingAfterLiveStop = FALSE
    /\ silenceCountdown = Null
    /\ errorLog = <<>>
    /\ liveModeActive = FALSE
    /\ vadLoop = FALSE
    /\ silenceStart = Null
    /\ now = 0
    /\ recordingStart = 0
    /\ recorder = "none"
    /\ stream = FALSE
    /\ chunks = 0
    /\ isProcessingSegment = FALSE
    /\ sealing = {}
    /\ saving = {}
    /\ liveAudioBlobs = 0
    /\ queue = <<>>
    /\ isTranscribing = FALSE
    /\ workerPc = "idle"
    /\ workerItem = <<>>
    /\ workerLoops = 0
    /\ workerTimers = 0
    /\ segments = <<>>
    /\ currentProject = Null
    /\ projectCount = 0
    /\ startPc = "idle"
    /\ startCount = 0
    /\ stopPc = "idle"
    /\ waitCount = 0
    /\ blobCount = 0
    /\ orphans = 0
    /\ hotkeyPc = "idle"
    /\ audioDisk = {}
    /\ diskSegments = [p \in Projects |-> <<>>]
    /\ closure = <<>>
    /\ finalLog = <<>>
    /\ uiCount = 0
    /\ sealedLog = <<>>
    /\ pushLog = <<>>
    /\ takenLog = <<>>
    /\ lastTick = NoTick
    /\ saveLock = FALSE
    /\ saveQueue = <<>>
    /\ mainSave = NoSave
    /\ mainRename = NoRename
    /\ projectSaveLocks = {}
    /\ folderId = Null
    /\ projectJson = NoMeta
    /\ tmpJson = NoMeta
    /\ submitLog = <<>>

Init ==
    /\ InitHome
    /\ segmentText = <<>>
    /\ audioDuration = 0
    /\ isUncertain = <<>>

Max(a, b) == IF a > b THEN a ELSE b

\* ---- clock and recorder events -------------------------------------------

\* time passes (the clock is read by the live session only)
Advance ==
    /\ vadLoop
    /\ now + TimeStep <= MaxNow
    /\ now' = now + TimeStep
    /\ UNCHANGED <<uiVars, liveModeActive, vadVars, recordingStart, recVars, saving,
                   liveAudioBlobs, queue, workerVars, workerTimers, projVars, startVars,
                   stopVars, sealedLog, pushLog>>
    /\ UNCHANGED quietVars

\* mediaRecorder.ondataavailable with event.data.size > 0 (ChunkBatch events at once)
DataAvailable ==
    /\ recorder = "recording" \/ orphans > 0
    /\ chunks < MaxChunks
    /\ chunks' = chunks + ChunkBatch
    /\ UNCHANGED <<uiVars, liveModeActive, vadVars, now, recordingStart, recorder, stream,
                   isProcessingSegment, sealing, blobCount, orphans, saving, liveAudioBlobs, queue,
                   workerVars, workerTimers, projVars, startVars, stopVars, sealedLog,
                   pushLog>>
    /\ UNCHANGED quietVars

\* ---- processLiveSegment ----------------------------------------------------

\* processLiveSegment up to its first await: TRUE when the call gets past both
\* early returns and recorder.stop() does not throw (a recorder that is already
\* inactive throws, and the catch block only releases the lock again)
SealStarts_NoLock == recorder = "recording" /\ stream

SealStarts == ~isProcessingSegment /\ recorder = "recording" /\ stream

\* the call record of a processLiveSegment that waits for the recorder's stop event
SealCall(by) == [by |-> by, no |-> blobCount + 1, startTime |-> now - recordingStart]

\* the queue item built in processLiveSegment
QueueItem(blob, segmentIndex, startTime, audioFilePath) ==
    [audioBlob |-> blob, segmentIndex |-> segmentIndex, startTime |-> startTime,
     audioFilePath |-> audioFilePath]

\* setting isProcessingAfterLiveStop back to false: the stop is settled
Settle ==
    /\ isProcessingAfterLiveStop' = FALSE
    /\ stopPc' = "idle"

\* the "is settled" test of toggleLiveMode
IsSettled_QueueOnly(q, transcribing) == Len(q) = 0

IsSettled(q, transcribing) == Len(q) = 0 /\ ~transcribing

\* stopLiveMode after the final processLiveSegment, and the continuation in
\* toggleLiveMode up to its first await; q is the queue at that moment
StopTail(q) ==
    /\ stream' = FALSE
    /\ orphans' = 0
    /\ silenceStart' = Null
    /\ IF IsSettled(q, isTranscribing)
       THEN Settle
       ELSE /\ stopPc' = "drain"
            /\ UNCHANGED isProcessingAfterLiveStop

\* the size check of processLiveSegment
TooSmall_Loose(size) == size < 100

TooSmall(size) == size < MinBlobSize

\* the recorder's stop event arrives: blob assembly, recorder restart, lock release,
\* size check, and without a project the push itself
SealStop ==
    \E c \in sealing, size \in BlobSizes :
        LET blob == [no |-> c.no, size |-> size]
            small == TooSmall(size)
            direct == ~small /\ currentProject = Null
            item == QueueItem(blob, liveAudioBlobs, c.startTime, Null)
            q == IF direct THEN Append(queue, item) ELSE queue
        IN  /\ sealing' = sealing \ {c}
            /\ sealedLog' = Append(sealedLog, blob)
            /\ chunks' = 0
            /\ recorder' = IF liveModeActive /\ stream THEN "recording" ELSE recorder
            /\ isProcessingSegment' = FALSE
            /\ saving' = IF ~small /\ ~direct
                         THEN saving \cup {[by |-> c.by, blob |-> blob,
                                            segmentIndex |-> liveAudioBlobs,
                                            startTime |-> c.startTime,
                                            project |-> currentProject]}
                         ELSE saving
            /\ liveAudioBlobs' = IF direct THEN liveAudioBlobs + 1 ELSE liveAudioBlobs
            /\ queue' = q
            /\ pushLog' = IF direct THEN Append(pushLog, item) ELSE pushLog
            /\ workerTimers' = IF direct /\ ~isTranscribing
                               THEN workerTimers + 1 ELSE workerTimers
            /\ IF c.by = "stop" /\ (small \/ direct)
               THEN /\ StopTail(q)
                    /\ UNCHANGED waitCount
               ELSE /\ orphans' = IF liveModeActive /\ stream /\ recorder = "recording"
                                  THEN orphans + 1 ELSE orphans
                    /\ UNCHANGED <<stream, silenceStart, isProcessingAfterLiveStop, stopVars>>
            /\ UNCHANGED <<liveMode, listening, silenceCountdown, errorLog, liveModeActive,
                           vadLoop, lastTick, now, recordingStart, blobCount, workerVars,
                           projVars, startVars>>
    /\ UNCHANGED quietVars

\* the path returned by projects:saveAudio: audio/segment_<index>.webm, given here
\* by its index
AudioPath(segmentIndex) == segmentIndex

\* the audio files after projects:saveAudio wrote audio/segment_<index>.webm of this
\* project (a file of that name is overwritten)
Stored(files, project, segmentIndex, no) ==
    {f \in files : ~(f.project = project /\ f.segmentIndex = segmentIndex)}
        \cup {[project |-> project, segmentIndex |-> segmentIndex, no |-> no]}

\* saveAudioToProject returns the path of the stored file: push.  (When the IPC call
\* fails it returns null instead, and the push is the one of the call without a
\* project in SealStop.)
SaveDone ==
    \E c \in saving :
        LET item == QueueItem(c.blob, c.segmentIndex, c.startTime,
                              AudioPath(c.segmentIndex))
            q == Append(queue, item)
        IN  /\ saving' = saving \ {c}
            /\ audioDisk' = Stored(audioDisk, c.project, c.segmentIndex, c.blob.no)
            /\ liveAudioBlobs' = liveAudioBlobs + 1
            /\ queue' = q
            /\ pushLog' = Append(pushLog, item)
            /\ workerTimers' = IF ~isTranscribing THEN workerTimers + 1 ELSE workerTimers
            /\ IF c.by = "stop"
               THEN /\ StopTail(q)
                    /\ UNCHANGED waitCount
               ELSE UNCHANGED <<stream, orphans, silenceStart, isProcessingAfterLiveStop,
                                stopVars>>
            /\ UNCHANGED <<liveMode, listening, silenceCountdown, errorLog, liveModeActive,
                           vadLoop, lastTick, now, recordingStart, recorder, chunks,
                           isProcessingSegment, sealing, blobCount, workerVars, projVars,
                           startVars, sealedLog>>
    /\ UNCHANGED <<hotkeyPc, uiCount, saveVars, textVars, diskSegments, finalVars>>

\* ---- checkVoiceActivity ------------------------------------------------------

\* where the current run of consecutive sub-threshold readings began
QuietSince(average) ==
    IF average >= silenceThreshold THEN Null
    ELSE IF lastTick.quietSince = Null THEN now ELSE lastTick.quietSince

\* the silence timer after a tick with this reading
TickTimer_Ungated(average) ==
    IF average < silenceThreshold
    THEN IF silenceStart = Null THEN now
         ELSE IF now - silenceStart > silenceDuration /\ ~isProcessingSegment
              THEN Null ELSE silenceStart
    ELSE Null

TickTimer(average) ==
    IF average < silenceThreshold /\ chunks >= minChunksForSegment
    THEN IF silenceStart = Null THEN now
         ELSE IF now - silenceStart > silenceDuration /\ ~isProcessingSegment
              THEN Null ELSE silenceStart
    ELSE Null

\* whether a tick with this reading calls processLiveSegment
TickTriggers_AtLeast(average) ==
    /\ average < silenceThreshold
    /\ chunks >= minChunksForSegment
    /\ silenceStart /= Null
    /\ now - silenceStart >= silenceDuration
    /\ ~isProcessingSegment

TickTriggers(average) ==
    /\ average < silenceThreshold
    /\ chunks >= minChunksForSegment
    /\ silenceStart /= Null
    /\ now - silenceStart > silenceDuration
    /\ ~isProcessingSegment

\* the countdown surfaced by a tick with this reading
TickCountdown(average) ==
    IF average < silenceThreshold /\ chunks >= minChunksForSegment
    THEN IF silenceStart = Null THEN silenceCountdown
         ELSE IF TickTriggers(average) THEN Null
              ELSE Max(0, silenceDuration - (now - silenceStart))
    ELSE Null

\* the end of the frame callback: processLiveSegment was called without await, and
\* the next frame is requested whether or not this tick sealed
NextFrame_AwaitsSeal(seals) == vadLoop' = ~seals

NextFrame(seals) == UNCHANGED vadLoop

\* one run of the frame callback with this loudness reading
TickBody(average) ==
    IF ~liveModeActive
    THEN /\ silenceCountdown' = Null
         /\ vadLoop' = FALSE
         /\ UNCHANGED <<silenceStart, lastTick, recorder, isProcessingSegment, sealing,
                        blobCount>>
    ELSE LET seals == TickTriggers(average) /\ SealStarts
         IN  /\ seals => blobCount < MaxSeals
             /\ silenceStart' = TickTimer(average)
             /\ silenceCountdown' = TickCountdown(average)
             /\ lastTick' = [average |-> average, chunks |-> chunks, at |-> now,
                             quietSince |-> QuietSince(average),
                             timerAfter |-> TickTimer(average),
                             sealed |-> seals]
             /\ IF seals
                THEN /\ isProcessingSegment' = TRUE
                     /\ recorder' = "inactive"
                     /\ sealing' = sealing \cup {SealCall("vad")}
                     /\ blobCount' = blobCount + 1
                ELSE UNCHANGED <<recorder, isProcessingSegment, sealing, blobCount>>
             /\ NextFrame(seals)

\* a frame callback runs, with any loudness reading
Tick ==
    /\ vadLoop
    /\ \E average \in Loudness : TickBody(average)
    /\ UNCHANGED <<liveMode, listening, isProcessingAfterLiveStop, errorLog, liveModeActive,
                   now, recordingStart, stream, chunks, orphans, saving, liveAudioBlobs, queue,
                   workerVars, workerTimers, projVars, startVars, stopVars, sealedLog,
                   pushLog>>
    /\ UNCHANGED quietVars

\* ---- processTranscriptionQueue -------------------------------------------------

\* the while condition, evaluated after an item: next item, or the loop ends
LoopCheck ==
    IF Len(queue) > 0
    THEN /\ workerPc' = "yield"
         /\ UNCHANGED <<isTranscribing, workerLoops>>
    ELSE /\ workerPc' = "idle"
         /\ isTranscribing' = FALSE
         /\ workerLoops' = workerLoops - 1

\* the two early returns of processTranscriptionQueue are passed
WorkerEnters_Unguarded == Len(queue) > 0

WorkerEnters == ~isTranscribing /\ Len(queue) > 0

\* a 50 ms timer set by processLiveSegment fires: processTranscriptionQueue is entered
WorkerStart ==
    /\ workerTimers > 0
    /\ workerTimers' = workerTimers - 1
    /\ IF WorkerEnters
       THEN /\ isTranscribing' = TRUE
            /\ workerPc' = "yield"
            /\ workerLoops' = workerLoops + 1
       ELSE UNCHANGED <<isTranscribing, workerPc, workerLoops>>
    /\ UNCHANGED <<uiVars, liveModeActive, vadVars, now, recordingStart, recVars, saving,
                   liveAudioBlobs, queue, workerItem, segments, takenLog, projVars,
                   startVars, stopVars, sealedLog, pushLog>>
    /\ UNCHANGED quietVars

\* the 100 ms yield is over: shift the head.  On a queue that was emptied in the
\* meantime shift() returns undefined, item.segmentIndex throws inside the try and
\* again inside the catch, and the function ends with isTranscribingRef still true.
WorkerShift ==
    /\ workerPc = "yield"
    /\ IF Len(queue) = 0
       THEN /\ workerPc' = "crashed"
            /\ workerLoops' = workerLoops - 1
            /\ UNCHANGED <<queue, workerItem, takenLog>>
       ELSE /\ workerPc' = "transcribing"
            /\ workerItem' = Append(workerItem, Head(queue))
            /\ queue' = Tail(queue)
            /\ UNCHANGED workerLoops
            /\ takenLog' = Append(takenLog, [no |-> Head(queue).audioBlob.no,
                                             outcome |-> "pending"])
    /\ UNCHANGED <<uiVars, liveModeActive, vadVars, now, recordingStart, recVars, saving,
                   liveAudioBlobs, isTranscribing, segments, workerTimers, projVars,
                   startVars, stopVars, sealedLog, pushLog>>
    /\ UNCHANGED quietVars

\* the segment built from an item
NewSegment(item) ==
    [id |-> item.segmentIndex, text |-> "heard", startTime |-> item.startTime,
     audioFile |-> item.audioFilePath, audioBlob |-> item.audioBlob.no]

\* saveCurrentProject({segments: updated}, activeProjectId) as called from the
\* setSegments updater: nothing is saved without a current project
SegmentsSaved(updated) ==
    IF currentProject /= Null
    THEN [diskSegments EXCEPT ![currentProject] = updated]
    ELSE diskSegments

\* the updater passed to setSegments
AddSegment_Prepend(prev, newSegment) == <<newSegment>> \o prev

AddSegment(prev, newSegment) == Append(prev, newSegment)

\* the errors surfaced once the item in flight has this outcome
ErrorsAfter_Swallowed(outcome, item) == errorLog

ErrorsAfter(outcome, item) ==
    IF outcome = "fail"
    THEN Append(errorLog, [src |-> "transcribe", no |-> item.audioBlob.no])
    ELSE errorLog

\* the takenLog with the outcome of the item in flight filled in
Finished(outcome) ==
    [takenLog EXCEPT ![Len(takenLog)].outcome = outcome]

\* the transcription of the item in flight ends: a text ("ok"), an error ("fail":
\* a thrown error, a missing API key or a non-2xx answer), or nothing usable
\* ("empty": audio too short, or a text of fewer than 2 characters)
WorkerResult ==
    /\ workerPc = "transcribing"
    /\ \E outcome \in Outcomes :
        /\ takenLog' = Finished(outcome)
        /\ workerItem' = SubSeq(workerItem, 1, Len(workerItem) - 1)
        /\ IF outcome = "ok"
           THEN /\ segments' = AddSegment(segments, NewSegment(workerItem[Len(workerItem)]))
                /\ diskSegments' = SegmentsSaved(segments')
                /\ workerPc' = "postYield"
                /\ UNCHANGED <<isTranscribing, workerLoops, errorLog>>
           ELSE /\ errorLog' = ErrorsAfter(outcome, workerItem[Len(workerItem)])
                /\ LoopCheck
                /\ UNCHANGED <<segments, diskSegments>>
    /\ UNCHANGED <<liveMode, listening, isProcessingAfterLiveStop, silenceCountdown,
                   liveModeActive, vadVars, now, recordingStart, recVars, saving,
                   liveAudioBlobs, queue, workerTimers, projVars, startVars, stopVars,
                   sealedLog, pushLog>>
    /\ UNCHANGED <<hotkeyPc, uiCount, saveVars, textVars, audioDisk, finalVars>>

\* the 50 ms yield after a completed segment is over
WorkerPostYield ==
    /\ workerPc = "postYield"
    /\ LoopCheck
    /\ UNCHANGED <<uiVars, liveModeActive, vadVars, now, recordingStart, recVars, saving,
                   liveAudioBlobs, queue, workerItem, segments, takenLog, workerTimers,
                   projVars, startVars, stopVars, sealedLog, pushLog>>
    /\ UNCHANGED quietVars

\* ---- toggleLiveMode, start branch, and startLiveMode ---------------------------

\* the Live button is enabled
LiveButtonEnabled == ~((listening /\ ~liveMode) \/ isProcessingAfterLiveStop)

\* toggleLiveMode's isContinuing / startLiveMode's isContinuing
IsContinuing == currentProject /= Null /\ Len(segments) > 0

\* click on Live / Fortsetzen: toggleLiveMode and startLiveMode up to the first await
\* (the click comes after the final write of the stop before it)
ToggleStart ==
    /\ ~liveMode
    /\ LiveButtonEnabled
    /\ startPc = "idle"
    /\ closure = <<>>
    /\ startCount < MaxStarts
    /\ startCount' = startCount + 1
    /\ queue' = <<>>
    /\ liveModeActive' = TRUE
    /\ IF IsContinuing
       THEN /\ liveAudioBlobs' = Len(segments)
            /\ recordingStart' = now
            /\ startPc' = "resume:getUserMedia"
       ELSE /\ startPc' = "createProject"
            /\ UNCHANGED <<liveAudioBlobs, recordingStart>>
    /\ UNCHANGED <<uiVars, vadVars, now, recVars, saving, workerVars, workerTimers,
                   projVars, stopVars, sealedLog, pushLog>>
    /\ UNCHANGED quietVars

\* createProject returns: a new project, or null when the IPC call failed
StartProjectCreated ==
    /\ startPc = "createProject"
    /\ \E ok \in BOOLEAN :
        IF ok
        THEN /\ currentProject' = projectCount + 1
             /\ projectCount' = projectCount + 1
        ELSE UNCHANGED <<currentProject, projectCount>>
    /\ liveAudioBlobs' = 0
    /\ segments' = <<>>
    /\ recordingStart' = now
    /\ startPc' = "new:getUserMedia"
    /\ UNCHANGED <<uiVars, liveModeActive, vadVars, now, recVars, saving, queue,
                   isTranscribing, workerPc, workerItem, workerLoops, takenLog,
                   workerTimers,
                   startCount, stopVars, sealedLog, pushLog>>
    /\ UNCHANGED quietVars

\* startLiveMode awaits getUserMedia (the prefix is its local isContinuing)
AtGetUserMedia == startPc \in {"resume:getUserMedia", "new:getUserMedia"}

\* getUserMedia resolves: recorder and VAD loop start, the UI goes live
StartMediaOk ==
    /\ AtGetUserMedia
    /\ stream' = TRUE
    /\ recorder' = "recording"
    /\ orphans' = IF recorder = "recording" THEN orphans + 1 ELSE orphans
    /\ chunks' = 0
    /\ vadLoop' = TRUE
    /\ liveMode' = TRUE
    /\ listening' = TRUE
    /\ startPc' = "idle"
    /\ UNCHANGED <<isProcessingAfterLiveStop, silenceCountdown, errorLog, liveModeActive,
                   silenceStart, lastTick, now, recordingStart, isProcessingSegment,
                   sealing, blobCount, saving, liveAudioBlobs, queue, workerVars,
                   workerTimers, projVars, startCount, stopVars, sealedLog, pushLog>>
    /\ UNCHANGED quietVars

\* getUserMedia rejects: the catch blocks of startLiveMode and toggleLiveMode
StartMediaFail_StaysActive ==
    /\ AtGetUserMedia
    /\ errorLog' = Append(errorLog, [src |-> "start", no |-> startCount])
    /\ startPc' = "idle"
    /\ UNCHANGED <<liveMode, listening, isProcessingAfterLiveStop, silenceCountdown,
                   liveModeActive, vadVars, now, recordingStart, recVars, saving,
                   liveAudioBlobs, queue, workerVars, workerTimers, projVars, startCount,
                   stopVars, sealedLog, pushLog>>
    /\ UNCHANGED quietVars

StartMediaFail ==
    /\ AtGetUserMedia
    /\ liveModeActive' = FALSE
    /\ errorLog' = Append(errorLog, [src |-> "start", no |-> startCount])
    /\ startPc' = "idle"
    /\ UNCHANGED <<liveMode, listening, isProcessingAfterLiveStop, silenceCountdown,
                   vadVars, now, recordingStart, recVars, saving, liveAudioBlobs, queue,
                   workerVars, workerTimers, projVars, startCount, stopVars, sealedLog,
                   pushLog>>
    /\ UNCHANGED quietVars

\* ---- toggleLiveMode, stop branch, and stopLiveMode ------------------------------

\* click on Live Stop: the UI switches at once, stopLiveMode is deferred by a timer
ToggleStop ==
    /\ liveMode
    /\ LiveButtonEnabled
    /\ stopPc = "idle"
    /\ liveMode' = FALSE
    /\ listening' = FALSE
    /\ silenceCountdown' = Null
    /\ isProcessingAfterLiveStop' = TRUE
    /\ stopPc' = "scheduled"
    /\ closure' = <<segments>>
    /\ UNCHANGED <<errorLog, liveModeActive, vadVars, now, recordingStart, recVars, saving,
                   liveAudioBlobs, queue, workerVars, workerTimers, projVars, startVars,
                   waitCount, sealedLog, pushLog>>
    /\ UNCHANGED <<hotkeyPc, uiCount, saveVars, textVars, diskVars, finalLog>>

\* stopLiveMode from the end of its bounded wait: the forced final seal if the
\* recorder is still recording, else straight on to the release of the stream.
\* A recorder that is recording while the seal lock is held (processLiveSegment
\* returns at once) loses its tracks with the stream and goes inactive.
FinalSeal ==
    IF recorder = "recording" /\ SealStarts
    THEN /\ blobCount < MaxSeals
         /\ isProcessingSegment' = TRUE
         /\ recorder' = "inactive"
         /\ sealing' = sealing \cup {SealCall("stop")}
         /\ blobCount' = blobCount + 1
         /\ stopPc' = "finalSeal"
         /\ UNCHANGED <<stream, orphans, silenceStart, isProcessingAfterLiveStop>>
    ELSE /\ StopTail(queue)
         /\ recorder' = IF recorder = "recording" THEN "inactive" ELSE recorder
         /\ UNCHANGED <<isProcessingSegment, sealing, blobCount>>

\* the deactivation at the head of stopLiveMode
Deactivate_Forgotten == UNCHANGED <<liveModeActive, vadLoop>>

Deactivate ==
    /\ liveModeActive' = FALSE
    /\ vadLoop' = FALSE

\* the 0 ms timer fires: stopLiveMode runs up to its first await
StopBegin ==
    /\ stopPc = "scheduled"
    /\ Deactivate
    /\ IF isProcessingSegment
       THEN /\ stopPc' = "waitSeal"
            /\ waitCount' = 0
            /\ UNCHANGED <<stream, orphans, silenceStart, isProcessingAfterLiveStop,
                           isProcessingSegment, recorder, sealing, blobCount>>
       ELSE /\ FinalSeal
            /\ UNCHANGED waitCount
    /\ lastTick' = NoTick
    /\ UNCHANGED <<liveMode, listening, silenceCountdown, errorLog, now,
                   recordingStart, chunks, saving, liveAudioBlobs, queue, workerVars,
                   workerTimers, projVars, startVars, sealedLog, pushLog>>
    /\ UNCHANGED quietVars

\* the while condition of the bounded wait, after waitCount++
WaitGoesOn_Unbounded == isProcessingSegment

WaitGoesOn == isProcessingSegment /\ waitCount + 1 < MaxWaitCount

\* one 100 ms poll of the bounded wait for a seal in flight
StopPoll ==
    /\ stopPc = "waitSeal"
    /\ IF WaitGoesOn
       THEN /\ waitCount' = waitCount + 1
            /\ UNCHANGED <<stopPc, stream, orphans, silenceStart, isProcessingAfterLiveStop,
                           isProcessingSegment, recorder, sealing, blobCount>>
       ELSE /\ waitCount' = 0
            /\ FinalSeal
    /\ UNCHANGED <<liveMode, listening, silenceCountdown, errorLog, liveModeActive, vadLoop,
                   lastTick, now, recordingStart, chunks, saving, liveAudioBlobs, queue,
                   workerVars, workerTimers, projVars, startVars, sealedLog, pushLog>>
    /\ UNCHANGED quietVars

\* a 500 ms poll of checkQueue finds the queue drained
StopDrained ==
    /\ stopPc = "drain"
    /\ IsSettled(queue, isTranscribing)
    /\ Settle
    /\ UNCHANGED <<liveMode, listening, silenceCountdown, errorLog, liveModeActive, vadVars,
                   now, recordingStart, recVars, saving, liveAudioBlobs, queue, workerVars,
                   workerTimers, projVars, startVars, waitCount, sealedLog, pushLog>>
    /\ UNCHANGED quietVars

\* the audio file reference the final write derives from a segment
AudioFileOf(seg) == IF seg.audioFile /= Null THEN seg.audioFile ELSE AudioPath(seg.id)

\* the audioFiles list built from a segment list
AudioFiles(segs) == [i \in 1..Len(segs) |-> AudioFileOf(segs[i])]

\* 100 ms after the stop has settled: the final write of toggleLiveMode's stop
\* branch, saveCurrentProject({audioFiles}) built from the segments of its closure
FinalWrite ==
    /\ closure /= <<>>
    /\ stopPc = "idle"
    /\ closure' = <<>>
    /\ finalLog' = IF currentProject /= Null
                   THEN Append(finalLog, [project |-> currentProject,
                                          audioFiles |-> AudioFiles(closure[1]),
                                          segments |-> segments])
                   ELSE finalLog
    /\ UNCHANGED <<uiVars, liveModeActive, vadVars, now, recordingStart, recVars, saving,
                   liveAudioBlobs, queue, workerVars, workerTimers, projVars, startVars,
                   stopVars, sealedLog, pushLog>>
    /\ UNCHANGED <<hotkeyPc, uiCount, saveVars, textVars, diskVars>>

Next ==
    \/ Advance
    \/ DataAvailable
    \/ Tick
    \/ SealStop
    \/ SaveDone
    \/ WorkerStart
    \/ WorkerShift
    \/ WorkerResult
    \/ WorkerPostYield
    \/ ToggleStart
    \/ StartProjectCreated
    \/ StartMediaOk
    \/ StartMediaFail
    \/ ToggleStop
    \/ StopBegin
    \/ StopPoll
    \/ StopDrained
    \/ FinalWrite

Spec == Init /\ [][Next]_vars

\* the recorder's stop event of the forced final seal arrives in this step
StopSealDelivers == \E c \in sealing \ sealing' : c.by = "stop"

\* the audio save of the forced final seal returns in this step
StopSaveReturns == \E c \in saving \ saving' : c.by = "stop"

\* the event stopLiveMode is awaiting arrives: a timer of its bounded wait fires,
\* the recorder answers the stop() of the forced final seal, or the audio save of
\* that seal returns (it awaits one of them at a time)
StopAwaited ==
    \/ StopPoll
    \/ SealStop /\ StopSealDelivers
    \/ SaveDone /\ StopSaveReturns

\* what stopLiveMode itself awaits does happen.  Nothing is assumed about a seal
\* that was in flight when the stop began.
SpecStop == Spec /\ WF_vars(StopAwaited)

\* ---- the global hotkey during live mode: toggleListen, stopWhisperRecording ---------
\* The speech provider is Whisper (local or API), as live mode itself requires.  What
\* stopWhisperRecording does with the blob (transcription, insertion at the cursor)
\* is left out.  The hotkey is pressed while no seal is in flight.

MaxUiOps == 1

\* one more hotkey press, project action or edit
UiOp ==
    /\ uiCount < MaxUiOps
    /\ uiCount' = uiCount + 1

\* the hotkey fires while the session shows listening: toggleListen takes its stop
\* branch, stopWhisperRecording sets its own onstop handler and stops the recorder
HotkeyStop ==
    /\ liveMode
    /\ listening
    /\ hotkeyPc = "idle"
    /\ recorder = "recording"
    /\ sealing = {}
    /\ listening' = FALSE
    /\ recorder' = "inactive"
    /\ hotkeyPc' = "awaitStop"
    /\ UiOp
    /\ UNCHANGED <<liveMode, isProcessingAfterLiveStop, silenceCountdown, errorLog,
                   liveModeActive, vadVars, now, recordingStart, stream, chunks,
                   isProcessingSegment, sealing, blobCount, orphans, saving, liveAudioBlobs,
                   queue, workerVars, workerTimers, projVars, startVars, stopVars, sealedLog,
                   pushLog>>
    /\ UNCHANGED <<saveVars, textVars, diskVars, finalVars>>

\* the stop event reaches stopWhisperRecording's handler: the tracks of the stream
\* held by recordingStreamRef are stopped, the ref and the chunks are cleared
HotkeyStopped ==
    /\ hotkeyPc = "awaitStop"
    /\ hotkeyPc' = "idle"
    /\ stream' = FALSE
    /\ recorder' = IF stream /\ recorder = "recording" THEN "inactive" ELSE recorder
    /\ orphans' = IF stream THEN 0 ELSE orphans
    /\ chunks' = 0
    /\ UNCHANGED <<uiVars, liveModeActive, vadVars, now, recordingStart, isProcessingSegment,
                   sealing, blobCount, saving, liveAudioBlobs, queue, workerVars,
                   workerTimers, projVars, startVars, stopVars, sealedLog, pushLog>>
    /\ UNCHANGED <<uiCount, saveVars, textVars, diskVars, finalVars>>

\* ---- project actions and segment edits, available at any time ----------------------

\* "+ Neu" confirmed: the current project and the segment list are cleared
ConfirmNewProject ==
    /\ currentProject /= Null \/ Len(segments) > 0
    /\ currentProject' = Null
    /\ segments' = <<>>
    /\ UiOp
    /\ UNCHANGED <<uiVars, liveModeActive, vadVars, now, recordingStart, recVars, saving,
                   liveAudioBlobs, queue, isTranscribing, workerPc, workerItem, workerLoops,
                   takenLog, workerTimers, projectCount, startVars, stopVars, sealedLog,
                   pushLog>>
    /\ UNCHANGED <<hotkeyPc, saveVars, textVars, diskVars, finalVars>>

\* click on another project of the list: loadProject makes it the current project
\* and shows its saved segments
LoadProject ==
    \E p \in 1..projectCount :
        /\ p /= currentProject
        /\ currentProject' = p
        /\ segments' = diskSegments[p]
        /\ liveAudioBlobs' = 0
    /\ UiOp
    /\ UNCHANGED <<uiVars, liveModeActive, vadVars, now, recordingStart, recVars, saving,
                   queue, isTranscribing, workerPc, workerItem, workerLoops, takenLog,
                   workerTimers, projectCount, startVars, stopVars, sealedLog, pushLog>>
    /\ UNCHANGED <<hotkeyPc, saveVars, textVars, diskVars, finalVars>>

\* the segment list after saveSegmentEdit(segmentId)
Edited(segs, segmentId) ==
    [i \in 1..Len(segs) |-> IF segs[i].id = segmentId
                             THEN [segs[i] EXCEPT !.text = "edited"] ELSE segs[i]]

\* the edit of a segment's text is saved
SaveSegmentEdit ==
    \E i \in 1..Len(segments) :
        /\ segments[i].text = "heard"
        /\ segments' = Edited(segments, segments[i].id)
        /\ diskSegments' = SegmentsSaved(segments')
    /\ UiOp
    /\ UNCHANGED <<uiVars, liveModeActive, vadVars, now, recordingStart, recVars, saving,
                   liveAudioBlobs, queue, isTranscribing, workerPc, workerItem, workerLoops,
                   takenLog, workerTimers, projVars, startVars, stopVars, sealedLog,
                   pushLog>>
    /\ UNCHANGED <<hotkeyPc, saveVars, textVars, audioDisk, finalVars>>

NextUi ==
    \/ Next
    \/ HotkeyStop
    \/ HotkeyStopped
    \/ ConfirmNewProject
    \/ LoadProject
    \/ SaveSegmentEdit

SpecUi == Init /\ [][NextUi]_vars

\* ---- the VAD loop against a scripted signal ----------------------------------------
\* One new session with the default idle time, fed LoudFor ms of speech and then
\* QuietFor ms of silence.  The clock moves in recorder timeslices of FrameStep ms
\* (mediaRecorder.start(100)); the frame callback runs at least once per timeslice.

FrameStep == 100
LoudFor == 2000
QuietFor == 3500

\* the loudness read by the analyser t ms after the session started
Signal(t) == IF t < LoudFor \/ t >= LoudFor + QuietFor THEN 40 ELSE 0

\* one timeslice passes: the running recorder delivers one chunk
Timeslice ==
    /\ vadLoop
    /\ lastTick.at = now
    /\ now + FrameStep <= LoudFor + QuietFor
    /\ now' = now + FrameStep
    /\ chunks' = IF recorder = "recording" THEN chunks + 1 ELSE chunks
    /\ UNCHANGED <<uiVars, liveModeActive, vadVars, recordingStart, recorder, stream,
                   isProcessingSegment, sealing, blobCount, orphans, saving, liveAudioBlobs, queue,
                   workerVars, workerTimers, projVars, startVars, stopVars, sealedLog,
                   pushLog>>
    /\ UNCHANGED quietVars

\* a frame callback runs and reads the scripted signal
ScriptedTick ==
    /\ vadLoop
    /\ TickBody(Signal(now - recordingStart))
    /\ UNCHANGED <<liveMode, listening, isProcessingAfterLiveStop, errorLog, liveModeActive,
                   now, recordingStart, stream, chunks, orphans, saving, liveAudioBlobs, queue,
                   workerVars, workerTimers, projVars, startVars, stopVars, sealedLog,
                   pushLog>>
    /\ UNCHANGED quietVars

NextVad ==
    \/ Timeslice
    \/ ScriptedTick
    \/ SealStop
    \/ SaveDone
    \/ WorkerStart
    \/ WorkerShift
    \/ WorkerResult
    \/ WorkerPostYield
    \/ ToggleStart
    \/ StartProjectCreated
    \/ StartMediaOk
    \/ StartMediaFail

SpecVad == Init /\ [][NextVad]_vars

\* ---- project persistence: saveCurrentProject, renameProject, main process ----------
\* One project; saves and renames are submitted by the renderer in any order and
\* overlap freely.  A save writes one field of project.json, a rename writes the
\* name.  The value written by the n-th submission is n for a save and the new
\* name for a rename.  File system calls of projects:save may fail.

MaxOps == 3
Names == {1, 2}
SaveKeys == {"segments", "rawTranscript"}

\* everything of the live session except the current project
sessionVars == <<uiVars, liveModeActive, vadVars, now, recordingStart, recVars, saving,
                 liveAudioBlobs, queue, workerVars, workerTimers, startVars, stopVars,
                 sealedLog, pushLog, hotkeyPc, uiCount, diskVars, finalVars>>

liveVars == <<sessionVars, textVars>>

\* the folder id projects:create and projects:rename derive from a name
FolderId(name) == name

\* project.json as projects:create writes it
NewMeta == [k \in Keys |-> IF k = "name" THEN 1 ELSE 0]

\* {...existing, ...data}
Merge(meta, key, val) == [meta EXCEPT ![key] = val]

\* the submission log with the outcome of submission op filled in
Outcome(op, outcome) == [submitLog EXCEPT ![op].outcome = outcome]

\* createProject and projects:create: folder and project.json are written
CreateProject ==
    /\ currentProject = Null
    /\ projectCount = 0
    /\ currentProject' = FolderId(1)
    /\ projectCount' = projectCount + 1
    /\ folderId' = FolderId(1)
    /\ projectJson' = NewMeta
    /\ UNCHANGED <<liveVars, saveLock, saveQueue, mainSave, mainRename, projectSaveLocks,
                   tmpJson, submitLog>>

\* the projects:save call saveCurrentProject sends for this queue entry
SaveCall(e) == [pc |-> "acquire", op |-> e.op, projectId |-> e.projectId,
                key |-> e.key, val |-> e.val, existing |-> NoMeta]

\* saveCurrentProject(data, projectId) is called: queued behind a save in flight,
\* else the lock is taken and projects:save is invoked
SubmitSave ==
    /\ currentProject /= Null
    /\ Len(submitLog) < MaxOps
    /\ \E key \in SaveKeys :
        LET op == Len(submitLog) + 1
            e == [op |-> op, projectId |-> currentProject, key |-> key, val |-> op]
        IN  /\ submitLog' = Append(submitLog, [kind |-> "save", key |-> key, val |-> op,
                                               outcome |-> "pending"])
            /\ IF saveLock
               THEN /\ saveQueue' = Append(saveQueue, e)
                    /\ UNCHANGED <<saveLock, mainSave>>
               ELSE /\ saveLock' = TRUE
                    /\ mainSave' = SaveCall(e)
                    /\ UNCHANGED saveQueue
    /\ UNCHANGED <<liveVars, projVars, mainRename, projectSaveLocks, folderId, projectJson,
                   tmpJson>>

\* projects:save finds no lock on the project (it polls every 50 ms otherwise),
\* takes it and starts to read project.json
MainSaveAcquire ==
    /\ mainSave.pc = "acquire"
    /\ mainSave.projectId \notin projectSaveLocks
    /\ projectSaveLocks' = projectSaveLocks \cup {mainSave.projectId}
    /\ mainSave' = [mainSave EXCEPT !.pc = "read"]
    /\ UNCHANGED <<liveVars, projVars, saveLock, saveQueue, mainRename, folderId,
                   projectJson, tmpJson, submitLog>>

\* a file system call of projects:save throws: catch, finally (lock released), and
\* the call is rejected
MainFailed_KeepsLock(outcome) ==
    /\ mainSave' = [mainSave EXCEPT !.pc = "replyErr"]
    /\ submitLog' = Outcome(mainSave.op, outcome)
    /\ UNCHANGED projectSaveLocks

MainFailed(outcome) ==
    /\ projectSaveLocks' = projectSaveLocks \ {mainSave.projectId}
    /\ mainSave' = [mainSave EXCEPT !.pc = "replyErr"]
    /\ submitLog' = Outcome(mainSave.op, outcome)

\* how a file system call on the path of this project id ends: the folder is gone
\* after a rename moved it ("enoent"), or the call works or fails
FsResults(projectId) == IF projectId = folderId THEN {"ok", "fail"} ELSE {"enoent"}

\* fs.readFile(metaPath) returns
MainSaveRead ==
    /\ mainSave.pc = "read"
    /\ \E r \in FsResults(mainSave.projectId) :
        IF r = "ok"
        THEN /\ mainSave' = [mainSave EXCEPT !.pc = "writeTmp", !.existing = projectJson]
             /\ UNCHANGED <<projectSaveLocks, submitLog>>
        ELSE MainFailed(r)
    /\ UNCHANGED <<liveVars, projVars, saveLock, saveQueue, mainRename, folderId,
                   projectJson, tmpJson>>

\* fs.writeFile(tempPath) returns
MainSaveWriteTmp ==
    /\ mainSave.pc = "writeTmp"
    /\ \E r \in FsResults(mainSave.projectId) :
        IF r = "ok"
        THEN /\ tmpJson' = Merge(mainSave.existing, mainSave.key, mainSave.val)
             /\ mainSave' = [mainSave EXCEPT !.pc = "rename"]
             /\ UNCHANGED <<projectSaveLocks, submitLog>>
        ELSE /\ MainFailed(r)
             /\ UNCHANGED tmpJson
    /\ UNCHANGED <<liveVars, projVars, saveLock, saveQueue, mainRename, folderId,
                   projectJson>>

\* fs.rename(tempPath, metaPath) returns: the save is committed, the lock released
MainSaveCommit ==
    /\ mainSave.pc = "rename"
    /\ \E r \in FsResults(mainSave.projectId) :
        IF r = "ok"
        THEN /\ projectJson' = tmpJson
             /\ tmpJson' = NoMeta
             /\ projectSaveLocks' = projectSaveLocks \ {mainSave.projectId}
             /\ mainSave' = [mainSave EXCEPT !.pc = "replyOk"]
             /\ submitLog' = Outcome(mainSave.op, "ok")
        ELSE /\ MainFailed(r)
             /\ UNCHANGED <<projectJson, tmpJson>>
    /\ UNCHANGED <<liveVars, projVars, saveLock, saveQueue, mainRename, folderId>>

\* the answer of projects:save reaches saveCurrentProject: try/catch, then finally:
\* the lock is dropped and the next queued save is started
SaveReply ==
    /\ mainSave.pc \in {"replyOk", "replyErr"}
    /\ IF Len(saveQueue) > 0
       THEN /\ mainSave' = SaveCall(Head(saveQueue))
            /\ saveQueue' = Tail(saveQueue)
            /\ saveLock' = TRUE
       ELSE /\ mainSave' = NoSave
            /\ saveLock' = FALSE
            /\ UNCHANGED saveQueue
    /\ UNCHANGED <<liveVars, projVars, mainRename, projectSaveLocks, folderId, projectJson,
                   tmpJson, submitLog>>

\* renameProject(newName): projects:rename is invoked at once
SubmitRename ==
    /\ currentProject /= Null
    /\ mainRename.pc = "none"
    /\ Len(submitLog) < MaxOps
    /\ \E name \in Names :
        /\ submitLog' = Append(submitLog, [kind |-> "rename", key |-> "name",
                                           val |-> name, outcome |-> "pending"])
        /\ mainRename' = [pc |-> "read", op |-> Len(submitLog) + 1,
                          projectId |-> currentProject, name |-> name, meta |-> NoMeta]
    /\ UNCHANGED <<liveVars, projVars, saveLock, saveQueue, mainSave, projectSaveLocks,
                   folderId, projectJson, tmpJson>>

\* projects:rename: fs.readFile(metaPath) returns, meta.name is set
MainRenameRead ==
    /\ mainRename.pc = "read"
    /\ mainRename' = [mainRename EXCEPT !.pc = "write",
                                        !.meta = Merge(projectJson, "name", mainRename.name)]
    /\ UNCHANGED <<liveVars, projVars, saveLock, saveQueue, mainSave, projectSaveLocks,
                   folderId, projectJson, tmpJson, submitLog>>

\* projects:rename: fs.writeFile(metaPath) returns; the folder is moved next when
\* its id changes
MainRenameWrite ==
    /\ mainRename.pc = "write"
    /\ projectJson' = mainRename.meta
    /\ mainRename' = [mainRename EXCEPT !.pc = IF FolderId(mainRename.name) /= mainRename.projectId
                                                THEN "move" ELSE "reply"]
    /\ UNCHANGED <<liveVars, projVars, saveLock, saveQueue, mainSave, projectSaveLocks,
                   folderId, tmpJson, submitLog>>

\* projects:rename: fs.rename(projectPath, newPath) returns
MainRenameMove ==
    /\ mainRename.pc = "move"
    /\ folderId' = FolderId(mainRename.name)
    /\ mainRename' = [mainRename EXCEPT !.pc = "reply"]
    /\ UNCHANGED <<liveVars, projVars, saveLock, saveQueue, mainSave, projectSaveLocks,
                   projectJson, tmpJson, submitLog>>

\* the answer of projects:rename reaches renameProject: setCurrentProject(updated)
RenameReply ==
    /\ mainRename.pc = "reply"
    /\ currentProject' = FolderId(mainRename.name)
    /\ submitLog' = Outcome(mainRename.op, "ok")
    /\ mainRename' = NoRename
    /\ UNCHANGED <<liveVars, projectCount, saveLock, saveQueue, mainSave, projectSaveLocks,
                   folderId, projectJson, tmpJson>>

NextSave ==
    \/ CreateProject
    \/ SubmitSave
    \/ MainSaveAcquire
    \/ MainSaveRead
    \/ MainSaveWriteTmp
    \/ MainSaveCommit
    \/ SaveReply
    \/ SubmitRename
    \/ MainRenameRead
    \/ MainRenameWrite
    \/ MainRenameMove
    \/ RenameReply

SpecSave == Init /\ [][NextSave]_vars

\* ---- the uncertainty heuristic of processTranscriptionQueue ----------------------------
\* A text is a string over a small alphabet: two letters, the full stop, the blank, and
\* "T", which stands for one non-speech tag (a substring one of nonSpeechTagPatterns
\* matches, such as *Musik*).

MaxLen == 5
Alphabet == {"a", "b", ".", " ", "T"}
Durations == {2, 3, 4}
Texts == UNION {[1..n -> Alphabet] : n \in 0..MaxLen}

\* String.prototype.trim over blanks
RECURSIVE TrimLeft(_)
TrimLeft(t) == IF t /= <<>> /\ Head(t) = " " THEN TrimLeft(Tail(t)) ELSE t

RECURSIVE TrimRight(_)
TrimRight(t) ==
    IF t /= <<>> /\ t[Len(t)] = " " THEN TrimRight(SubSeq(t, 1, Len(t) - 1)) ELSE t

Trim(t) == TrimRight(TrimLeft(t))

\* replace(/\s+/g, " ")
RECURSIVE Collapse(_)
Collapse(t) ==
    IF Len(t) < 2 THEN t
    ELSE IF t[1] = " " /\ t[2] = " " THEN Collapse(Tail(t))
         ELSE <<t[1]>> \o Collapse(Tail(t))

\* filterNonSpeechTags(text) for processing: tags removed, whitespace collapsed, trimmed
FilterNonSpeechTags(text) == Trim(Collapse(SelectSeq(text, LAMBDA c : c /= "T")))

\* text.split(/\s+/).length
RECURSIVE SplitLength(_)
SplitLength(t) ==
    IF t = <<>> THEN 1
    ELSE IF Head(t) = " " THEN 1 + SplitLength(TrimLeft(t))
         ELSE SplitLength(Tail(t))

\* /(.)\1{3,}/.test(text)
HasRepeatedChars(t) ==
    \E i \in 1..(Len(t) - 3) : t[i] = t[i + 1] /\ t[i] = t[i + 2] /\ t[i] = t[i + 3]

\* text.includes("...")
HasEllipsis(t) == \E i \in 1..(Len(t) - 2) : SubSeq(t, i, i + 2) = <<".", ".", ".">>

\* tooFewWordsForDuration
TooFewWordsForDuration_AtLeast(wordCount, duration) == wordCount <= 2 /\ duration >= 3

TooFewWordsForDuration(wordCount, duration) == wordCount <= 2 /\ duration > 3

\* the isUncertain computed for a segment
IsUncertain(text, duration) ==
    LET textWithoutTags == FilterNonSpeechTags(text)
        hasActualSpeech == textWithoutTags /= <<>> /\ Len(textWithoutTags) >= 2
        wordCount == IF textWithoutTags /= <<>> THEN SplitLength(textWithoutTags) ELSE 0
    IN  \/ hasActualSpeech /\ \/ TooFewWordsForDuration(wordCount, duration)
                               \/ HasEllipsis(textWithoutTags)
                               \/ HasRepeatedChars(textWithoutTags)
        \/ ~hasActualSpeech

\* the worker has a trimmed text of at least 2 characters (shorter ones are skipped)
\* and computes isUncertain for the new segment
Classify ==
    /\ isUncertain = <<>>
    /\ Len(segmentText) >= 2
    /\ Trim(segmentText) = segmentText
    /\ isUncertain' = <<IsUncertain(segmentText, audioDuration)>>
    /\ UNCHANGED <<sessionVars, projVars, saveVars, segmentText, audioDuration>>

InitText ==
    /\ InitHome
    /\ segmentText \in Texts
    /\ audioDuration \in Durations
    /\ isUncertain = <<>>

NextText == Classify

SpecText == InitText /\ [][NextText]_vars

\* ---- properties -------------------------------------------------------------------

\* position of a blob in the push history
PushIndex(no) == CHOOSE i \in 1..Len(pushLog) : pushLog[i].audioBlob.no = no

Pushed == {pushLog[i].audioBlob.no : i \in 1..Len(pushLog)}
Queued == {queue[i].audioBlob.no : i \in 1..Len(queue)}
Taken == {takenLog[i].no : i \in 1..Len(takenLog)}

\* a processLiveSegment call triggered by the VAD loop starts in this step
VadSealBegins == \E c \in sealing' \ sealing : c.by = "vad"

\* C1: the segments of the list are in the order in which their items were pushed
\* to the transcription queue
C1_EnqueueOrder ==
    /\ \A i \in 1..Len(segments) : segments[i].audioBlob \in Pushed
    /\ \A i, j \in 1..Len(segments) :
        i < j => PushIndex(segments[i].audioBlob) < PushIndex(segments[j].audioBlob)

\* two segments were appended whose items were pushed in the opposite order of
\* their seals
C1_Witness ==
    /\ Len(segments) >= 2
    /\ segments[1].audioBlob > segments[2].audioBlob

\* C2: at the step that sets isProcessingAfterLiveStop back to false the queue is
\* empty, the worker is idle and no processLiveSegment call awaits its audio save
C2_SettledNothingOutstanding ==
    [][(isProcessingAfterLiveStop /\ ~isProcessingAfterLiveStop')
        => (Len(queue') = 0 /\ ~isTranscribing' /\ saving' = {})]_vars

\* C3: items are pushed in the order in which their segments were sealed
C3_PushOrderIsSealOrder ==
    \A i, j \in 1..Len(pushLog) :
        i < j => pushLog[i].audioBlob.no < pushLog[j].audioBlob.no

\* C4: the ids of the queue items are strictly increasing and no two segments of
\* the list have the same id
C4_UniqueIds ==
    /\ \A i, j \in 1..Len(queue) : i < j => queue[i].segmentIndex < queue[j].segmentIndex
    /\ \A i, j \in 1..Len(segments) : i /= j => segments[i].id /= segments[j].id

BigBlobs == {sealedLog[i].no : i \in {k \in 1..Len(sealedLog) : ~TooSmall(sealedLog[k].size)}}
SmallBlobs == {sealedLog[i].no : i \in {k \in 1..Len(sealedLog) : TooSmall(sealedLog[k].size)}}
Saving == {c.blob.no : c \in saving}

\* the recorder delivers a blob below the minimum size in this step
SmallSealed ==
    /\ Len(sealedLog') = Len(sealedLog) + 1
    /\ sealedLog'[Len(sealedLog')].size < MinBlobSize

\* C6: every sealed blob of at least the minimum size is pushed exactly once (it
\* awaits its audio save or is in the push history), so with no save pending the
\* number of pushes is the number of such blobs; a blob below the minimum is never
\* pushed and changes neither the queue nor the id counter
C6_NoLoss ==
    /\ [](/\ Pushed \cup Saving = BigBlobs
          /\ Pushed \cap Saving = {}
          /\ Cardinality(Pushed) = Len(pushLog)
          /\ saving = {} => Len(pushLog) = Cardinality(BigBlobs))
    /\ [][SmallSealed => (queue' = queue /\ liveAudioBlobs' = liveAudioBlobs
                          /\ pushLog' = pushLog)]_vars

\* a stop has settled after two blobs of sufficient size and one below the minimum
C6_Witness ==
    /\ ~liveMode /\ ~isProcessingAfterLiveStop
    /\ stopPc = "idle" /\ saving = {} /\ sealing = {}
    /\ Cardinality(BigBlobs) = 2
    /\ Cardinality(SmallBlobs) = 1
    /\ Len(pushLog) = 2

OkLog == SelectSeq(takenLog, LAMBDA t : t.outcome = "ok")
ErrorsOf(no) == Len(SelectSeq(errorLog, LAMBDA e : e.src = "transcribe" /\ e.no = no))

\* the transcription of the item in flight fails in this step
FailStep ==
    /\ workerPc = "transcribing"
    /\ takenLog' /= takenLog
    /\ takenLog'[Len(takenLog')].outcome = "fail"

\* C7: a failed item surfaces exactly one error and no segment, the worker goes on
\* with the next item, and the list holds the items that succeeded, in the order
\* in which the worker took them
C7_ErrorIsolation ==
    /\ [](/\ \A i \in 1..Len(takenLog) :
                ErrorsOf(takenLog[i].no) = IF takenLog[i].outcome = "fail" THEN 1 ELSE 0
          /\ Len(segments) <= Len(OkLog)
          /\ \A i \in 1..Len(segments) :
                segments[i].audioBlob = OkLog[Len(OkLog) - Len(segments) + i].no)
    /\ [][FailStep => /\ segments' = segments
                      /\ Len(errorLog') = Len(errorLog) + 1
                      /\ Len(queue) > 0 => workerPc' = "yield"]_vars

\* three items were taken, the second failed, the list holds the first and third
C7_Witness ==
    /\ Len(takenLog) = 3
    /\ takenLog[1].outcome = "ok" /\ takenLog[2].outcome = "fail"
    /\ takenLog[3].outcome = "ok"
    /\ Len(segments) = 2
    /\ Len(errorLog) = 1

\* C8: a resuming start keeps the list and leaves the id counter above every id of
\* the list; a new session starts with an empty list and the counter at 0
C8_ResumeContinuesIds ==
    /\ [][(startPc = "idle" /\ startPc' = "resume:getUserMedia")
            => /\ segments' = segments
               /\ \A i \in 1..Len(segments') : segments'[i].id < liveAudioBlobs']_vars
    /\ [][(startPc = "createProject" /\ startPc' = "new:getUserMedia")
            => (segments' = <<>> /\ liveAudioBlobs' = 0)]_vars

\* C9: every pushed item is still queued or was taken by the worker, and a
\* non-empty queue always has a running worker or a pending worker start
C9_EveryItemTaken ==
    /\ Pushed \subseteq Queued \cup Taken
    /\ Len(queue) > 0 => (isTranscribing \/ workerTimers > 0)

\* the last tick read a sub-threshold loudness with fewer than the minimum chunks
GatedQuietTick ==
    /\ lastTick.average /= Null
    /\ lastTick.average < silenceThreshold
    /\ lastTick.chunks < minChunksForSegment

\* C10: a sub-threshold tick with fewer than minChunksForSegment chunks leaves the
\* silence timer unset and starts no seal
C10_MinChunkGating ==
    GatedQuietTick => (silenceStart = Null /\ lastTick.timerAfter = Null /\ ~lastTick.sealed)

\* such a tick after the silence has lasted longer than the idle time
C10_Witness ==
    /\ GatedQuietTick
    /\ lastTick.quietSince /= Null
    /\ lastTick.at - lastTick.quietSince > silenceDuration

\* C11: in the scripted session (LoudFor ms of speech, then QuietFor ms of silence,
\* idle time 3000 ms) the VAD loop starts exactly one seal: the silence timer runs
\* from the first quiet tick, the seal starts on the first tick that finds it running
\* for more than the idle time, and no second seal starts in that silence
C11_OneSealPerSilence ==
    /\ [](/\ blobCount <= 1
          /\ lastTick.at > LoudFor + silenceDuration => blobCount = 1)
    /\ [][VadSealBegins => /\ blobCount = 0
                            /\ silenceStart = recordingStart + LoudFor
                            /\ now - silenceStart > silenceDuration
                            /\ lastTick.at - silenceStart <= silenceDuration]_vars

\* the scripted silence is over and its one seal has delivered its blob
C11_Witness ==
    /\ now - recordingStart = LoudFor + QuietFor
    /\ lastTick.at = now
    /\ blobCount = 1
    /\ Len(sealedLog) = 1

\* C12: the queue item of the first segment sealed in a new session has startTime 0
C12_FirstStartTimeZero ==
    \A i \in 1..Len(pushLog) : pushLog[i].audioBlob.no = 1 => pushLog[i].startTime = 0

\* a frame callback of the running loop in this step (every such run that changes
\* the timer, the countdown or the tick record)
TickStep ==
    /\ vadLoop /\ liveModeActive
    /\ liveMode' = liveMode /\ stopPc' = stopPc
    /\ lastTick'.at = now /\ lastTick'.average /= Null
    /\ <<silenceStart, silenceCountdown, lastTick>>' /= <<silenceStart, silenceCountdown, lastTick>>

\* C13: a tick that finds the silence timer running surfaces max(0, idle time -
\* elapsed) while the silence lasts, and none when it triggers the seal; a loud tick
\* surfaces none
C13_Countdown ==
    [][TickStep =>
        /\ lastTick'.average >= silenceThreshold => silenceCountdown' = Null
        /\ (lastTick'.average < silenceThreshold /\ silenceStart /= Null) =>
              silenceCountdown' = IF VadSealBegins THEN Null
                                  ELSE Max(0, silenceDuration - (now - silenceStart))]_vars

\* an item is in flight in the worker
InFlight == {workerItem[i].audioBlob.no : i \in 1..Len(workerItem)}

\* C14: the settled test is false whenever an item is queued or in flight in the
\* worker, and once it is true it stays true over every step that pushes nothing
C14_SettledTest ==
    /\ []((Len(queue) > 0 \/ InFlight /= {}) => ~IsSettled(queue, isTranscribing))
    /\ [][(IsSettled(queue, isTranscribing) /\ pushLog' = pushLog)
            => IsSettled(queue', isTranscribing')]_vars

\* the stop sequence polls the test while the last item is in flight, queue empty
C14_Witness ==
    /\ stopPc = "drain"
    /\ Len(queue) = 0
    /\ InFlight /= {}
    /\ ~IsSettled(queue, isTranscribing)

\* C15: the bounded wait of stopLiveMode makes at most MaxWaitCount polls; the last
\* one, finding the seal lock still held, goes on to release the stream; and a stop
\* that waits gets past the wait, releases the stream and returns, whether or not
\* the seal that was in flight ever finishes
C15_BoundedWait ==
    /\ [](waitCount < MaxWaitCount)
    /\ [][(stopPc = "waitSeal" /\ waitCount = MaxWaitCount - 1 /\ waitCount' /= waitCount
           /\ isProcessingSegment)
            => (stopPc' \in {"idle", "drain"} /\ ~stream' /\ isProcessingSegment')]_vars
    /\ (stopPc = "waitSeal") ~> (stopPc \in {"idle", "drain"} /\ ~stream)

\* the wait ran out on a seal that never finished: the stream is released with the
\* lock still held
C15_Witness ==
    /\ stopPc \in {"idle", "drain"}
    /\ ~stream
    /\ isProcessingSegment
    /\ sealing /= {}

\* getUserMedia rejected in this step
MediaFailed ==
    /\ AtGetUserMedia
    /\ startPc' = "idle"
    /\ ~stream'

\* C16: when getUserMedia fails the error is surfaced, the active flag is false
\* afterwards, no VAD loop and no recorder runs and the UI is not live; outside a
\* start and a stop the active flag is only set while the UI is live
C16_MicFailure ==
    /\ [][MediaFailed => /\ Len(errorLog') = Len(errorLog) + 1
                         /\ errorLog'[Len(errorLog')].src = "start"
                         /\ ~liveModeActive' /\ ~vadLoop' /\ recorder' /= "recording"
                         /\ ~liveMode' /\ ~listening']_vars
    /\ []((startPc = "idle" /\ stopPc = "idle" /\ ~liveMode)
            => (~liveModeActive /\ ~vadLoop /\ recorder /= "recording"))

\* the second start failed at getUserMedia after a complete first session
C16_Witness ==
    /\ startCount = 2
    /\ startPc = "idle"
    /\ Len(errorLog) > 0
    /\ errorLog[Len(errorLog)] = [src |-> "start", no |-> 2]
    /\ Len(sealedLog) > 0
    /\ ~liveMode /\ ~liveModeActive

\* stopLiveMode passes its final-seal test in this step
PassesFinalSeal ==
    /\ stopPc \in {"scheduled", "waitSeal"}
    /\ stopPc' \notin {"scheduled", "waitSeal"}

\* a processLiveSegment call of stopLiveMode starts in this step
StopSealBegins == \E c \in sealing' \ sealing : c.by = "stop"

\* C19: every stop that reaches the final-seal test of stopLiveMode with the
\* recorder recording starts one forced final seal, after the loop was deactivated,
\* and its blob is skipped when too small and saved or pushed otherwise
C19_FinalSealWhenRecording ==
    /\ [][(PassesFinalSeal /\ recorder = "recording") => StopSealBegins]_vars
    /\ [][StopSealBegins => (PassesFinalSeal /\ ~liveModeActive' /\ ~vadLoop')]_vars
    /\ [](Cardinality({c \in sealing : c.by = "stop"}) <= 1)
    /\ [][StopSealDelivers =>
            /\ Len(sealedLog') = Len(sealedLog) + 1
            /\ LET blob == sealedLog'[Len(sealedLog')]
               IN  IF TooSmall(blob.size)
                   THEN pushLog' = pushLog /\ saving' = saving
                   ELSE \/ \E c \in saving' \ saving : c.blob = blob
                        \/ /\ Len(pushLog') = Len(pushLog) + 1
                           /\ pushLog'[Len(pushLog')].audioBlob = blob]_vars

FinishedItems == {takenLog[i].no : i \in {k \in 1..Len(takenLog) : takenLog[k].outcome /= "pending"}}

\* C20: every pushed item is in exactly one place (queued, in flight, or finished
\* by the worker once), and the queue only ever loses its head to the worker
C20_Accounting ==
    /\ [](/\ Pushed = Queued \cup InFlight \cup FinishedItems
          /\ Queued \cap InFlight = {} /\ Queued \cap FinishedItems = {}
          /\ InFlight \cap FinishedItems = {}
          /\ Cardinality(Taken) = Len(takenLog))
    /\ [][queue' /= queue =>
            \/ \E item \in {pushLog'[i] : i \in 1..Len(pushLog')} : queue' = Append(queue, item)
            \/ (Len(queue) > 0 /\ queue' = Tail(queue) /\ workerItem' = <<Head(queue)>>)]_vars

\* no save or rename is queued or in flight
Quiescent ==
    /\ mainSave.pc = "none"
    /\ mainRename.pc = "none"
    /\ saveQueue = <<>>

\* project.json after the read-merge-write steps of these submissions, one at a
\* time in this order (a save whose file system call failed writes nothing)
RECURSIVE ApplyOps(_, _)
ApplyOps(meta, log) ==
    IF log = <<>> THEN meta
    ELSE ApplyOps(IF Head(log).outcome = "fail" THEN meta
                  ELSE Merge(meta, Head(log).key, Head(log).val),
                  Tail(log))

\* C17: once every submitted save and rename has been answered, project.json holds
\* what applying them one at a time in submission order gives: no update is lost
C17_SubmissionOrder ==
    (folderId /= Null /\ Quiescent) => projectJson = ApplyOps(NewMeta, submitLog)

\* a file system call of the save in flight fails in this step
SaveFails ==
    /\ mainSave.pc \in {"read", "writeTmp", "rename"}
    /\ mainSave'.pc = "replyErr"

\* the rejection of a failed save reaches saveCurrentProject in this step
FailureReplied ==
    /\ mainSave.pc = "replyErr"
    /\ mainSave' /= mainSave

\* C18: a failing save leaves project.json as it was and releases the lock of the
\* main process; when its rejection reaches the renderer the save lock is dropped
\* and the next queued save is sent, which never finds the project locked; the
\* two locks are only ever held for a save in flight
C18_FailedSave ==
    /\ [][SaveFails => /\ projectJson' = projectJson
                       /\ projectSaveLocks' = {}]_vars
    /\ [][FailureReplied =>
            IF Len(saveQueue) > 0
            THEN /\ mainSave'.pc = "acquire" /\ mainSave'.op = Head(saveQueue).op
                 /\ saveQueue' = Tail(saveQueue)
            ELSE ~saveLock' /\ mainSave'.pc = "none"]_vars
    /\ [](/\ projectSaveLocks /= {} => mainSave.pc \in {"read", "writeTmp", "rename"}
          /\ saveLock <=> mainSave.pc /= "none"
          /\ mainSave.pc = "acquire" => mainSave.projectId \notin projectSaveLocks)

\* the first save failed on the file system, the second, queued behind it, was
\* committed on top of the content the first left untouched
C18_Witness ==
    /\ Quiescent
    /\ Len(submitLog) >= 2
    /\ submitLog[1].kind = "save" /\ submitLog[1].outcome = "fail"
    /\ submitLog[2].kind = "save" /\ submitLog[2].outcome = "ok"
    /\ projectJson = Merge(NewMeta, submitLog[2].key, 2)
    /\ projectSaveLocks = {} /\ ~saveLock

\* the worker is inside its while loop
WorkerRunning == workerPc \in {"yield", "transcribing", "postYield"}

\* C21: at most one processTranscriptionQueue loop runs and at most one queue item is
\* in flight at any time, whatever the interleaving of pushes, 50 ms start timers and
\* stop; a running loop holds isTranscribingRef
C21_SingleWorker ==
    /\ workerLoops <= 1
    /\ Len(workerItem) <= 1
    /\ (workerLoops = 1) = WorkerRunning
    /\ WorkerRunning => isTranscribing

\* a start timer is pending while the loop has an item in flight, and the stop has begun
C21_Witness ==
    /\ workerLoops = 1
    /\ Len(workerItem) = 1
    /\ workerTimers >= 1
    /\ stopPc = "drain"

\* a processLiveSegment call gets its blob in this step
SealCompletes == \E c \in sealing : c \notin sealing'

Recording == (IF recorder = "recording" THEN 1 ELSE 0) + orphans

\* C23: while the live session is active and no seal is in flight, exactly one recorder
\* is recording on the session's stream, whatever the user does (Live button, hotkey)
C23_OneRecorder ==
    (liveMode /\ liveModeActive /\ sealing = {} /\ ~isProcessingSegment)
        => (Recording = 1 /\ stream)

\* the live session is active
SessionActive == liveMode /\ liveModeActive

\* work downstream of the VAD loop is going on
Downstream == sealing /= {} \/ saving /= {} \/ WorkerRunning

\* the worker takes an item off the queue in this step
WorkerTakes == Len(takenLog') > Len(takenLog)

\* C24: a VAD tick is never blocked by downstream work: in an active session the tick
\* is enabled whenever a seal is in flight, an audio save is pending or the worker is
\* busy, and the worker takes each item from a yield point at which a tick can run
C24_TickNotBlocked ==
    /\ []((SessionActive /\ Downstream) => ENABLED Tick)
    /\ [][WorkerTakes => (workerPc = "yield" /\ (SessionActive => ENABLED Tick))]_vars

\* a tick has run while the seal it triggered before was still in flight: the silence
\* timer cleared by the trigger is set again
C24_Witness ==
    /\ SessionActive
    /\ sealing /= {}
    /\ silenceStart /= Null
    /\ ENABLED Tick

\* the segment list grows by one entry at its tail in this step
Appends ==
    /\ Len(segments') = Len(segments) + 1
    /\ SubSeq(segments', 1, Len(segments)) = segments

\* the text of one segment is replaced in this step, nothing else
EditsOne ==
    /\ Len(segments') = Len(segments)
    /\ \E i \in 1..Len(segments) :
        /\ segments'[i] = [segments[i] EXCEPT !.text = "edited"]
        /\ \A j \in 1..Len(segments) : j /= i => segments'[j] = segments[j]

\* C25: during a live session the segment list changes only by an append at the tail
\* or by an edit that replaces the text of one segment; nothing removes or replaces
\* entries while the session is active
C25_SegmentListFrame ==
    [][(SessionActive /\ segments' /= segments) => (Appends \/ EditsOne)]_vars

\* C26: every final write made after the queue has drained holds one audio file
\* reference per segment of the segment list as it is then, in list order, the
\* segments appended between the stop request and the end of the drain included
C26_FinalWriteComplete ==
    \A i \in 1..Len(finalLog) : finalLog[i].audioFiles = AudioFiles(finalLog[i].segments)

\* the blobs of the items the worker discarded for an empty or too short text
Discarded == {takenLog[i].no : i \in {k \in 1..Len(takenLog) : takenLog[k].outcome = "empty"}}

\* the blobs a segment list refers to
BlobsOf(segs) == {segs[i].audioBlob : i \in 1..Len(segs)}

\* C27: nothing of a discarded item is added or persisted: no segment in the list, no
\* segment in any saved project, and no stored audio file
C27_DiscardLeavesNothing ==
    \A no \in Discarded :
        /\ no \notin BlobsOf(segments)
        /\ \A p \in Projects : no \notin BlobsOf(diskSegments[p])
        /\ \A f \in audioDisk : f.no /= no

\* the characters of a text that are left once the tags are taken out and the blanks
\* around and between words are reduced to single separators
Remaining(text) == FilterNonSpeechTags(text)

\* the words of a text: its maximal runs of characters other than blanks
WordStarts(t) == {i \in 1..Len(t) : t[i] /= " " /\ (i = 1 \/ t[i - 1] = " ")}

\* a run of four equal characters starts at position i
RunAt(t, i) == \A k \in 1..3 : t[i + k] = t[i]

\* isUncertain as the heuristic is described
Described(text, duration) ==
    LET rest == Remaining(text)
    IN  IF Len(rest) < 2 THEN TRUE
        ELSE \/ Cardinality(WordStarts(rest)) <= 2 /\ duration > 3
             \/ \E i \in 1..(Len(rest) - 2) : \A k \in 0..2 : rest[i + k] = "."
             \/ \E i \in 1..(Len(rest) - 3) : RunAt(rest, i)

\* C28: the isUncertain of a completed segment is true exactly when, after stripping
\* the non-speech tags, fewer than 2 characters remain, or speech remains and (at most
\* 2 words with a duration over 3 s, or an ellipsis, or a character 4 or more times
\* in a row); "ja..." at 4 s is uncertain, a clear sentence of three words at 4 s is not
C28_IsUncertain ==
    /\ isUncertain /= <<>> => isUncertain[1] = Described(segmentText, audioDuration)
    /\ IsUncertain(<<"b", "a", ".", ".", ".">>, 4)
    /\ ~IsUncertain(<<"a", " ", "b", " ", "a">>, 4)

\* isUncertain was computed for a text with a tag in it, of two words and 3 s
C28_Witness ==
    /\ isUncertain = <<FALSE>>
    /\ segmentText = <<"a", " ", "T", " ", "b">>
    /\ audioDuration = 3

\* the projects whose folder holds the audio file of this blob
AudioProjects(no) == {f.project : f \in {g \in audioDisk : g.no = no}}

\* the projects whose saved segment list holds the segment of this blob
SegmentProjects(no) == {p \in Projects : no \in BlobsOf(diskSegments[p])}

\* the blobs whose transcription gave a text
Transcribed == {takenLog[i].no : i \in {k \in 1..Len(takenLog) : takenLog[k].outcome = "ok"}}

\* C29: the audio file and the segment write of one segment go to the same project:
\* a segment whose audio is stored in a project is saved to that project and to no
\* other, also when another project is loaded or a new one is prepared meanwhile
C29_ProjectBinding ==
    \A no \in Transcribed :
        AudioProjects(no) /= {} => SegmentProjects(no) = AudioProjects(no)

\* the submissions that save a segment list
SegmentSaves == {i \in 1..Len(submitLog) : submitLog[i].kind = "save"
                                           /\ submitLog[i].key = "segments"}

\* every submitted save has been answered without a failure
AllSavesOk == \A i \in 1..Len(submitLog) :
                 submitLog[i].kind = "save" => submitLog[i].outcome = "ok"

\* the segment list in memory: the one the last segments save was submitted with
LastSegmentsSave == CHOOSE i \in SegmentSaves : \A j \in SegmentSaves : j <= i

\* C30: once nothing is queued or in flight and every submitted save was answered
\* without a failure, the segment list in project.json is the one in memory, that
\* is the list of the last segments save submitted
C30_StoredListIsCurrent ==
    (folderId /= Null /\ Quiescent /\ AllSavesOk /\ SegmentSaves /= {})
        => projectJson["segments"] = submitLog[LastSegmentsSave].val

\* the same with no rename among the submissions
C30_SavesAlone ==
    (\A i \in 1..Len(submitLog) : submitLog[i].kind = "save") => C30_StoredListIsCurrent

====
